---- MODULE Spec2Model ----
(***************************************************************************)
(* Verification model of the MLOPs repository.                             *)
(*                                                                         *)
(*   src/src/train.py            the training pipeline: main() runs        *)
(*                               create_synthetic_data, preprocess_data,   *)
(*                               train_model, evaluate_model and           *)
(*                               save_model_and_artifacts inside one try.  *)
(*   src/validate_integration.py the validator: validate_workflow,         *)
(*                               validate_documentation and main().        *)
(*                                                                         *)
(* Three specifications share the module:                                  *)
(*   Spec      one run of train.py's main(), the arguments of              *)
(*             create_synthetic_data drawn from small ranges;              *)
(*   SpecConc  several processes that each call save_model_and_artifacts   *)
(*             on the same models directory while the clock advances;      *)
(*   SpecVal   one run of validate_integration.py's main() over every      *)
(*             state of the three files it inspects.                       *)
(*                                                                         *)
(* A data row is identified with its index in X (X[i] = i), so that the    *)
(* rows of a partition can be traced back to the dataset, and the scaler   *)
(* statistics are kept as exact integers (sum and count).                  *)
(***************************************************************************)
EXTENDS Integers, Sequences, FiniteSets, TLC

VARIABLES
    pc,        \* pc[r]: the pipeline state of run r (the last stage completed)
    at,        \* at[r]: the statement of save_model_and_artifacts run r is at
    status,    \* status[r][stage]: "pending", "ok" or "raised"
    exit,      \* exit[r]: the process exit status, None while running
    args,      \* args[r]: the arguments of create_synthetic_data
    gen,       \* gen[r]: (X, y) returned by create_synthetic_data
    prep,      \* prep[r]: what preprocess_data returned, and its scaler calls
    model,     \* model[r]: the classifier returned by train_model
    metrics,   \* metrics[r]: the dictionary returned by evaluate_model
    ts,        \* ts[r]: the timestamp string of save_model_and_artifacts
    opened,    \* opened[r]: the paths run r opened for writing, in order
    ret,       \* ret[r]: the value save_model_and_artifacts returned
    madeDir,   \* madeDir[r]: os.makedirs of run r created the directory
    clock,     \* the wall clock, in ticks
    dirExists, \* the models directory exists
    disk,      \* disk[path]: the file at path (absent paths are not in DOMAIN)
    vpc,       \* validator: position in main()
    wfFile,    \* validator: the state of .github/workflows/claude.yml
    docFiles,  \* validator: the state of README.md and .claude-config.md
    workflow_valid, \* validator: main()'s local
    docs_valid,     \* validator: main()'s local
    escaped,   \* validator: an exception left a check uncaught
    vret       \* validator: main()'s return value

pipeVars == <<pc, at, status, exit, args, gen, prep, model, metrics, ts,
              opened, ret, madeDir, clock, dirExists, disk>>
valVars  == <<vpc, wfFile, docFiles, workflow_valid, docs_valid, escaped, vret>>
vars     == <<pipeVars, valVars>>

\* Optional values: None, or Some(x) holding x.
None == <<>>
Some(x) == <<x>>
Val(o) == o[1]

\* What a validation returns when it raises nothing.
NoError == "NoError"

-----------------------------------------------------------------------------
(* Bounds of the model.                                                    *)

MaxSamples     == 6   \* n_samples ranges over -1..MaxSamples
MaxFeatures    == 20  \* n_features ranges over -1..MaxFeatures
MaxClock       == 2   \* the clock stops at MaxClock ticks
TicksPerSecond == 2   \* clock ticks per second of the timestamp format
NumRuns        == 2   \* concurrent processes of SpecConc

(* Program constants.                                                      *)

N_INFORMATIVE  == 15  \* make_classification(n_informative=15)
N_REDUNDANT    == 5   \* make_classification(n_redundant=5)
TEST_SIZE_PCT  == 20  \* train_test_split(test_size=0.2), in percent

Classes == {0, 1}     \* make_classification's default n_classes=2

-----------------------------------------------------------------------------
(* Helpers on sequences and sets.                                          *)

Range(s) == {s[i] : i \in DOMAIN s}

\* The sum of f over the set S of its arguments.
RECURSIVE SumOver(_, _)
SumOver(f, S) == IF S = {} THEN 0
                 ELSE LET x == CHOOSE x \in S : TRUE IN f[x] + SumOver(f, S \ {x})

Min(a, b) == IF a < b THEN a ELSE b

RECURSIVE SeqSum(_)
SeqSum(s) == IF s = <<>> THEN 0 ELSE Head(s) + SeqSum(Tail(s))

\* The elements of a set of integers in ascending order.
RECURSIVE SortedSeq(_)
SortedSeq(S) == IF S = {} THEN <<>>
                ELSE LET m == CHOOSE x \in S : \A z \in S : x <= z
                     IN <<m>> \o SortedSeq(S \ {m})

SubsetsOfSize(S, k) == {T \in SUBSET S : Cardinality(T) = k}

IsPrefix(s, t) == Len(s) <= Len(t) /\ \A i \in 1..Len(s) : s[i] = t[i]

-----------------------------------------------------------------------------
(* create_synthetic_data: sklearn's make_classification validates its      *)
(* parameters before it draws anything.  n_samples and n_features must be  *)
(* at least 1, and n_informative + n_redundant + n_repeated (15 + 5 + 0)   *)
(* must not exceed n_features; each violation raises ValueError.           *)

\* A generator that does not validate the sample count.
GenErrorNoSampleCheck(n_samples, n_features) ==
    IF n_features < 1 THEN "ValueError"
    ELSE IF N_INFORMATIVE + N_REDUNDANT > n_features THEN "ValueError"
    ELSE NoError

GenError(n_samples, n_features) ==
    IF n_samples < 1 \/ n_features < 1 THEN "ValueError"
    ELSE IF N_INFORMATIVE + N_REDUNDANT > n_features THEN "ValueError"
    ELSE NoError

\* The datasets make_classification can return: n_samples rows of n_features
\* columns, one label per row.  The labels depend on the generator's random
\* stream (cluster assignment, label noise, shuffle), so every labelling is
\* allowed.  Row i of X is represented by i.
create_synthetic_data(n_samples, n_features) ==
    IF GenError(n_samples, n_features) # NoError THEN {}
    ELSE {[X |-> [i \in 1..n_samples |-> i], n_features |-> n_features, y |-> lab] :
             lab \in [1..n_samples -> Classes]}

-----------------------------------------------------------------------------
(* train_test_split(X, y, test_size=0.2, random_state=42, stratify=y).     *)

\* _validate_shuffle_split: n_test = ceil(test_size * n), n_train = n - n_test.
\* (The ceiling is taken exactly; the float product 0.2 * n rounds to the same
\* integer for every n the model reaches.)
NTest(n)  == (n * TEST_SIZE_PCT + 99) \div 100
NTrain(n) == n - NTest(n)

ClassesOf(y) == Range(y)
ClassIndices(y, c) == {i \in DOMAIN y : y[i] = c}
ClassCount(y, c) == Cardinality(ClassIndices(y, c))

\* The ValueErrors of _validate_shuffle_split and StratifiedShuffleSplit.
SplitError(y) ==
    LET n == Len(y) IN
    IF NTrain(n) = 0 THEN "ValueError"                       \* empty train set
    ELSE IF \E c \in ClassesOf(y) : ClassCount(y, c) < 2 THEN "ValueError"
    ELSE IF NTrain(n) < Cardinality(ClassesOf(y)) THEN "ValueError"
    ELSE IF NTest(n) < Cardinality(ClassesOf(y)) THEN "ValueError"
    ELSE NoError

\* _approximate_mode(class_counts, n_draws): floor of the proportional share,
\* the draws left over going to the classes with the largest remainders (ties
\* broken by the random stream).  counts is a function class -> count; the
\* result is the set of allocations the random stream can produce.
\* (class_counts / sum * n_draws is computed in exact arithmetic here.)
ApproximateMode(counts, n_draws) ==
    LET cs      == DOMAIN counts
        total   == SumOver(counts, cs)
        floored == [c \in cs |-> (counts[c] * n_draws) \div total]
        rem     == [c \in cs |-> (counts[c] * n_draws) % total]
        need    == n_draws - SumOver(floored, cs)
    IN {[c \in cs |-> floored[c] + (IF c \in S THEN 1 ELSE 0)] :
            S \in {T \in SubsetsOfSize(cs, Min(need, Cardinality(cs))) :
                     \A c \in T, d \in cs \ T : rem[c] >= rem[d]}}

\* A split whose two sizes are each rounded down.
SplitSizesFloored(n) ==
    [train |-> (n * (100 - TEST_SIZE_PCT)) \div 100, test |-> (n * TEST_SIZE_PCT) \div 100]

\* The sizes of the two partitions (_validate_shuffle_split).
SplitSizes(n) == [train |-> NTrain(n), test |-> NTest(n)]

\* One class of StratifiedShuffleSplit._iter_indices: a random permutation of
\* the class's rows idx; perm[:ni] goes to train and perm[ni:ni+ti] to test.
ClassSplits(idx, ni, ti) ==
    UNION {{[train |-> tr, test |-> te] :
               te \in SubsetsOfSize(idx \ tr, Min(ti, Cardinality(idx \ tr)))} :
           tr \in SubsetsOfSize(idx, Min(ni, Cardinality(idx)))}

\* StratifiedShuffleSplit._iter_indices: the (train, test) index arrays it can
\* return.  The final shuffle of each side is abstracted to ascending order.
StratifiedSplits(y) ==
    LET cs     == ClassesOf(y)
        sz     == SplitSizes(Len(y))
        counts == [c \in cs |-> ClassCount(y, c)]
        Combine(n_i, t_i) ==
            LET per == [c \in cs |-> ClassSplits(ClassIndices(y, c), n_i[c], t_i[c])]
            IN {[train |-> SortedSeq(UNION {f[c].train : c \in cs}),
                 test  |-> SortedSeq(UNION {f[c].test : c \in cs})] :
                   f \in {g \in [cs -> UNION {per[c] : c \in cs}] :
                             \A c \in cs : g[c] \in per[c]}}
    IN UNION {UNION {Combine(n_i, t_i) :
                       t_i \in ApproximateMode([c \in cs |-> counts[c] - n_i[c]], sz.test)} :
              n_i \in ApproximateMode(counts, sz.train)}

\* _safe_indexing(a, indices): the elements of a at the given indices.
SafeIndexing(a, idx) == [k \in 1..Len(idx) |-> a[idx[k]]]

\* train_test_split: the same index arrays select the rows of X and of y.
train_test_split(X, y) ==
    IF SplitError(y) # NoError THEN {}
    ELSE {[X_train |-> SafeIndexing(X, sp.train), X_test |-> SafeIndexing(X, sp.test),
           y_train |-> SafeIndexing(y, sp.train), y_test |-> SafeIndexing(y, sp.test)] :
             sp \in StratifiedSplits(y)}

-----------------------------------------------------------------------------
(* StandardScaler.  The statistics are kept exactly: mean_ = sum / n.  A   *)
(* transformed value is kept as n * (x - mean_) = n * x - sum, an integer; *)
(* the division by the standard deviation is not modelled.  calls is the   *)
(* record of the fit and transform calls the object received.              *)

StandardScaler == [fitted |-> FALSE, sum |-> 0, n |-> 0, calls |-> <<>>]

fit(scaler, data) ==
    [fitted |-> TRUE, sum |-> SeqSum(data), n |-> Len(data),
     calls |-> Append(scaler.calls, [op |-> "fit", data |-> data])]

Scaled(scaler, data) == [k \in 1..Len(data) |-> scaler.n * data[k] - scaler.sum]

transform(scaler, data) ==
    [scaler |-> [scaler EXCEPT !.calls = Append(@, [op |-> "transform", data |-> data])],
     out    |-> Scaled(scaler, data)]

\* TransformerMixin.fit_transform: fit(X).transform(X).
fit_transform(scaler, data) == transform(fit(scaler, data), data)

\* A preprocess_data that calls fit_transform on the test partition too.
ScaleFeaturesLeaky(X_train, X_test) ==
    LET a == fit_transform(StandardScaler, X_train)
        b == fit_transform(a.scaler, X_test)
    IN [X_train_scaled |-> a.out, X_test_scaled |-> b.out, scaler |-> b.scaler]

\* Lines 49-51 of preprocess_data.
ScaleFeatures(X_train, X_test) ==
    LET a == fit_transform(StandardScaler, X_train)
        b == transform(a.scaler, X_test)
    IN [X_train_scaled |-> a.out, X_test_scaled |-> b.out, scaler |-> b.scaler]

\* preprocess_data(X, y): the results it can return (none when the split raises).
\* X_train and X_test are the function's locals, kept to trace the rows.
preprocess_data(X, y) ==
    {[X_train |-> sp.X_train, X_test |-> sp.X_test,
      X_train_scaled |-> ScaleFeatures(sp.X_train, sp.X_test).X_train_scaled,
      X_test_scaled  |-> ScaleFeatures(sp.X_train, sp.X_test).X_test_scaled,
      y_train |-> sp.y_train, y_test |-> sp.y_test,
      scaler |-> ScaleFeatures(sp.X_train, sp.X_test).scaler] :
        sp \in train_test_split(X, y)}

\* train_model(X_train, y_train): the fitted classifier, opaque but for the
\* data it was fitted on.
train_model(X_train, y_train) == [fitted_X |-> X_train, fitted_y |-> y_train]

\* evaluate_model(model, X_test, y_test): the metrics dictionary.  The scores
\* are the classifier's business and stay opaque: the record keeps what they
\* were computed on.  The timestamp field is the clock at full resolution
\* (isoformat), read here and not in save_model_and_artifacts.
evaluate_model(m, X_test, y_test, now) ==
    [scored_X |-> X_test, scored_y |-> y_test, timestamp |-> now]

-----------------------------------------------------------------------------
(* save_model_and_artifacts: the file system and the clock.                *)

MODEL_NAME == "random_forest_model"   \* the default main() relies on

\* datetime.now().strftime("%Y%m%d_%H%M%S"): the clock cut to whole seconds.
FormatTimestamp(now) == now \div TicksPerSecond

\* Lines 98-100: the three paths under models_dir.  A path is kept as the
\* parts of its file name: <name>[_<kind>]_<timestamp>.<ext>.
MkPath(name, kind, timestamp, ext) ==
    [name |-> name, kind |-> kind, stamp |-> timestamp, ext |-> ext]

ArtifactPaths(model_name, timestamp) ==
    [model_path   |-> MkPath(model_name, "", timestamp, "pkl"),
     scaler_path  |-> MkPath(model_name, "scaler", timestamp, "pkl"),
     metrics_path |-> MkPath(model_name, "metrics", timestamp, "json")]

\* The order in which the function writes its files.
WriteOrder(paths) == <<paths.model_path, paths.scaler_path, paths.metrics_path>>

\* The value the function returns.
SaveResult(paths) == paths.model_path

\* open(path, 'w' or 'wb'): creates the file, or truncates the one that is there.
OpenForWriting(d, path, r) ==
    (path :> [writers |-> (IF path \in DOMAIN d THEN d[path].writers ELSE <<>>) \o <<r>>,
              complete |-> FALSE]) @@ d

\* pickle.dump / json.dump followed by the close of the with block.
DumpAndClose(d, path) == [d EXCEPT ![path].complete = TRUE]

-----------------------------------------------------------------------------
(* main(): the stages, the try block and its handler.                      *)

Stages == <<"generate", "preprocess", "train", "evaluate", "save">>
StageSet == Range(Stages)
PipelineStates == <<"Init", "Generated", "Preprocessed", "Trained", "Evaluated",
                    "Persisted", "Done">>
StateIndex(s) == CHOOSE i \in 1..Len(PipelineStates) : PipelineStates[i] = s

\* A main() that goes from training straight to the end of the save stage.
NextStateSkipping(s) ==
    IF s = "Trained" THEN "Persisted" ELSE PipelineStates[StateIndex(s) + 1]

\* The state that follows s when its stage completes.
NextState(s) == PipelineStates[StateIndex(s) + 1]

\* sys.exit(1) of the handler; falling off the end of main() exits with 0.
EXIT_FAILURE == 1
EXIT_SUCCESS == 0

\* The stage st of run r returns: main() goes on with the next statement.
Completes(r, st) ==
    /\ pc' = [pc EXCEPT ![r] = NextState(pc[r])]
    /\ status' = [status EXCEPT ![r][st] = "ok"]
    /\ exit' = exit

\* A stage that catches its own exception and lets main() go on.
RaisesSwallowed(r, st) ==
    /\ pc' = [pc EXCEPT ![r] = NextState(pc[r])]
    /\ status' = [status EXCEPT ![r][st] = "raised"]
    /\ exit' = exit

\* The stage st of run r raises: the handler of line 141 logs and exits.
Raises(r, st) ==
    /\ pc' = [pc EXCEPT ![r] = "Failed"]
    /\ status' = [status EXCEPT ![r][st] = "raised"]
    /\ exit' = [exit EXCEPT ![r] = Some(EXIT_FAILURE)]

fsVars == <<clock, dirExists, disk>>
saveVars == <<at, ts, opened, ret, madeDir>>

\* Line 123.
Generate(r) ==
    /\ pc[r] = "Init"
    /\ \/ /\ GenError(args[r].n_samples, args[r].n_features) # NoError
          /\ Raises(r, "generate")
          /\ gen' = gen
       \/ /\ \E d \in create_synthetic_data(args[r].n_samples, args[r].n_features) :
                gen' = [gen EXCEPT ![r] = Some(d)]
          /\ Completes(r, "generate")
    /\ UNCHANGED <<args, prep, model, metrics, saveVars, fsVars, valVars>>

\* Line 126.
Preprocess(r) ==
    /\ pc[r] = "Generated"
    /\ \/ /\ SplitError(Val(gen[r]).y) # NoError
          /\ Raises(r, "preprocess")
          /\ prep' = prep
       \/ /\ \E p \in preprocess_data(Val(gen[r]).X, Val(gen[r]).y) :
                prep' = [prep EXCEPT ![r] = Some(p)]
          /\ Completes(r, "preprocess")
    /\ UNCHANGED <<args, gen, model, metrics, saveVars, fsVars, valVars>>

\* Line 129.  The fit may fail for reasons outside the model (memory, the
\* worker pool of n_jobs=-1).
Train(r) ==
    /\ pc[r] = "Preprocessed"
    /\ \/ /\ Raises(r, "train")
          /\ model' = model
       \/ /\ model' = [model EXCEPT ![r] =
                   Some(train_model(Val(prep[r]).X_train_scaled, Val(prep[r]).y_train))]
          /\ Completes(r, "train")
    /\ UNCHANGED <<args, gen, prep, metrics, saveVars, fsVars, valVars>>

\* Line 132.
Evaluate(r) ==
    /\ pc[r] = "Trained"
    /\ \/ /\ Raises(r, "evaluate")
          /\ UNCHANGED <<metrics, at>>
       \/ /\ metrics' = [metrics EXCEPT ![r] =
                   Some(evaluate_model(Val(model[r]), Val(prep[r]).X_test_scaled,
                                       Val(prep[r]).y_test, clock))]
          /\ Completes(r, "evaluate")
          /\ at' = [at EXCEPT ![r] = "makedirs"]
    /\ UNCHANGED <<args, gen, prep, model, ts, opened, ret, madeDir, fsVars, valVars>>

\* Line 95: os.makedirs(models_dir, exist_ok=True).
SaveMakedirs(r) ==
    /\ pc[r] = "Evaluated" /\ at[r] = "makedirs"
    /\ \/ /\ Raises(r, "save")                       \* OSError
          /\ UNCHANGED <<at, madeDir, dirExists>>
       \/ /\ dirExists' = TRUE
          /\ madeDir' = [madeDir EXCEPT ![r] = ~dirExists]
          /\ at' = [at EXCEPT ![r] = "stamp"]
          /\ UNCHANGED <<pc, status, exit>>
    /\ UNCHANGED <<args, gen, prep, model, metrics, ts, opened, ret, clock, disk, valVars>>

\* Line 97: the one reading of the clock.
SaveStamp(r) ==
    /\ pc[r] = "Evaluated" /\ at[r] = "stamp"
    /\ ts' = [ts EXCEPT ![r] = Some(FormatTimestamp(clock))]
    /\ at' = [at EXCEPT ![r] = "open"]
    /\ UNCHANGED <<pc, status, exit, args, gen, prep, model, metrics, opened, ret,
                   madeDir, fsVars, valVars>>

\* A save function that reads the clock again for every path.
NextPathRestamped(r) ==
    WriteOrder(ArtifactPaths(MODEL_NAME, FormatTimestamp(clock)))[Len(opened[r]) + 1]

\* The path the next open() of run r is given.
NextPath(r) == WriteOrder(ArtifactPaths(MODEL_NAME, Val(ts[r])))[Len(opened[r]) + 1]

\* Lines 103, 107, 111: open the next file for writing.
SaveOpen(r) ==
    /\ pc[r] = "Evaluated" /\ at[r] = "open"
    /\ \/ /\ Raises(r, "save")                       \* OSError: nothing created
          /\ UNCHANGED <<at, opened, disk>>
       \/ /\ disk' = OpenForWriting(disk, NextPath(r), r)
          /\ opened' = [opened EXCEPT ![r] = Append(@, NextPath(r))]
          /\ at' = [at EXCEPT ![r] = "dump"]
          /\ UNCHANGED <<pc, status, exit>>
    /\ UNCHANGED <<args, gen, prep, model, metrics, ts, ret, madeDir, clock, dirExists, valVars>>

\* A save function that removes its files when a dump fails.
SaveDumpRollback(r) ==
    /\ pc[r] = "Evaluated" /\ at[r] = "dump"
    /\ \/ /\ Raises(r, "save")
          /\ disk' = [p \in DOMAIN disk \ Range(opened[r]) |-> disk[p]]
          /\ UNCHANGED at
       \/ /\ disk' = DumpAndClose(disk, opened[r][Len(opened[r])])
          /\ at' = [at EXCEPT ![r] = IF Len(opened[r]) < 3 THEN "open" ELSE "return"]
          /\ UNCHANGED <<pc, status, exit>>
    /\ UNCHANGED <<args, gen, prep, model, metrics, ts, opened, ret, madeDir, clock,
                   dirExists, valVars>>

\* Lines 104, 108, 112: serialize into the open file and close it.
SaveDump(r) ==
    /\ pc[r] = "Evaluated" /\ at[r] = "dump"
    /\ \/ /\ Raises(r, "save")                       \* the file stays, incomplete
          /\ UNCHANGED <<at, disk>>
       \/ /\ disk' = DumpAndClose(disk, opened[r][Len(opened[r])])
          /\ at' = [at EXCEPT ![r] = IF Len(opened[r]) < 3 THEN "open" ELSE "return"]
          /\ UNCHANGED <<pc, status, exit>>
    /\ UNCHANGED <<args, gen, prep, model, metrics, ts, opened, ret, madeDir, clock,
                   dirExists, valVars>>

\* Line 114, and line 135 of main().
SaveReturn(r) ==
    /\ pc[r] = "Evaluated" /\ at[r] = "return"
    /\ ret' = [ret EXCEPT ![r] = Some(SaveResult(ArtifactPaths(MODEL_NAME, Val(ts[r]))))]
    /\ at' = [at EXCEPT ![r] = "returned"]
    /\ Completes(r, "save")
    /\ UNCHANGED <<args, gen, prep, model, metrics, ts, opened, madeDir, fsVars, valVars>>

\* Lines 137-139: the closing log lines; main() returns and the process ends.
Finish(r) ==
    /\ pc[r] = "Persisted"
    /\ pc' = [pc EXCEPT ![r] = NextState(pc[r])]
    /\ exit' = [exit EXCEPT ![r] = Some(EXIT_SUCCESS)]
    /\ UNCHANGED <<status, args, gen, prep, model, metrics, saveVars, fsVars, valVars>>

\* Time passes.  The clock starts at the reading evaluate_model takes of it;
\* what the pipeline does with time afterwards is read it once more, in
\* save_model_and_artifacts, so the ticks are taken while a run is in that call.
Tick ==
    /\ clock < MaxClock
    /\ \E r \in DOMAIN pc : pc[r] = "Evaluated"
    /\ clock' = clock + 1
    /\ UNCHANGED <<pc, status, exit, args, gen, prep, model, metrics, saveVars,
                   dirExists, disk, valVars>>

-----------------------------------------------------------------------------
(* Specifications of the pipeline.                                         *)

NoData == [r \in {} |-> 0]

ValIdle ==
    /\ vpc = "idle" /\ wfFile = None /\ docFiles = None
    /\ workflow_valid = None /\ docs_valid = None /\ escaped = FALSE /\ vret = None

InitRuns(R) ==
    /\ exit = [r \in R |-> None]
    /\ ts = [r \in R |-> None]
    /\ opened = [r \in R |-> <<>>]
    /\ ret = [r \in R |-> None]
    /\ madeDir = [r \in R |-> FALSE]
    /\ clock = 0
    /\ dirExists \in BOOLEAN
    /\ disk = <<>>

\* One run of main().  main() passes 1000 and 20; the model draws the two
\* arguments of create_synthetic_data from small ranges instead.
Init ==
    /\ pc = [r \in {1} |-> "Init"]
    /\ at = [r \in {1} |-> "idle"]
    /\ args \in [{1} -> [n_samples : (-1)..MaxSamples, n_features : (-1)..MaxFeatures]]
    /\ gen = [r \in {1} |-> None]
    /\ prep = [r \in {1} |-> None]
    /\ model = [r \in {1} |-> None]
    /\ metrics = [r \in {1} |-> None]
    /\ status = [r \in {1} |-> [st \in StageSet |-> "pending"]]
    /\ InitRuns({1})
    /\ ValIdle

Next ==
    \/ Tick
    \/ \E r \in DOMAIN pc : Generate(r)
    \/ \E r \in DOMAIN pc : Preprocess(r)
    \/ \E r \in DOMAIN pc : Train(r)
    \/ \E r \in DOMAIN pc : Evaluate(r)
    \/ \E r \in DOMAIN pc : SaveMakedirs(r)
    \/ \E r \in DOMAIN pc : SaveStamp(r)
    \/ \E r \in DOMAIN pc : SaveOpen(r)
    \/ \E r \in DOMAIN pc : SaveDump(r)
    \/ \E r \in DOMAIN pc : SaveReturn(r)
    \/ \E r \in DOMAIN pc : Finish(r)

Spec == Init /\ [][Next]_vars

\* A dataset main() can have reached evaluate_model with: every run computes
\* the same one, the seeds being fixed.
SomeData ==
    CHOOSE d \in create_synthetic_data(MaxSamples, N_INFORMATIVE + N_REDUNDANT) :
        SplitError(d.y) = NoError
SomePrep == CHOOSE p \in preprocess_data(SomeData.X, SomeData.y) : TRUE
SomeModel == train_model(SomePrep.X_train_scaled, SomePrep.y_train)

\* NumRuns processes, each about to call save_model_and_artifacts on the same
\* models directory.
InitConc ==
    LET R == 1..NumRuns IN
    /\ pc = [r \in R |-> "Evaluated"]
    /\ at = [r \in R |-> "makedirs"]
    /\ args = [r \in R |-> [n_samples |-> MaxSamples,
                            n_features |-> N_INFORMATIVE + N_REDUNDANT]]
    /\ gen = [r \in R |-> Some(SomeData)]
    /\ prep = [r \in R |-> Some(SomePrep)]
    /\ model = [r \in R |-> Some(SomeModel)]
    /\ metrics = [r \in R |-> Some(evaluate_model(SomeModel, SomePrep.X_test_scaled,
                                                   SomePrep.y_test, 0))]
    /\ InitRuns(R)
    /\ status = [r \in R |-> [st \in StageSet |-> IF st = "save" THEN "pending" ELSE "ok"]]
    /\ ValIdle

NextConc ==
    \/ Tick
    \/ \E r \in DOMAIN pc : SaveMakedirs(r)
    \/ \E r \in DOMAIN pc : SaveStamp(r)
    \/ \E r \in DOMAIN pc : SaveOpen(r)
    \/ \E r \in DOMAIN pc : SaveDump(r)
    \/ \E r \in DOMAIN pc : SaveReturn(r)
    \/ \E r \in DOMAIN pc : Finish(r)

SpecConc == InitConc /\ [][NextConc]_vars

-----------------------------------------------------------------------------
(* Properties of one run of the pipeline (checked under Spec).             *)

Runs == DOMAIN pc
Terminal == {"Done", "Failed"}
StageDone(r, k) == status[r][Stages[k]]

\* The stages before pipeline state s have completed and the others have not
\* started.
LinearProgress(r) ==
    \A k \in 1..Len(Stages) :
        StageDone(r, k) = (IF k < StateIndex(pc[r]) THEN "ok" ELSE "pending")

\* Exactly one stage raised; its predecessors completed, its successors never
\* started.
FailedAtOneStage(r) ==
    \E k \in 1..Len(Stages) :
        /\ StageDone(r, k) = "raised"
        /\ \A j \in 1..(k - 1) : StageDone(r, j) = "ok"
        /\ \A j \in (k + 1)..Len(Stages) : StageDone(r, j) = "pending"

\* The stage that starts in the current state can raise now.
RaiseEnabled(r) ==
    ENABLED (Next /\ pc[r] # "Failed" /\ pc'[r] = "Failed")

\* C1: the stages of main() run in the order Init -> Generated ->
\* Preprocessed -> Trained -> Evaluated -> Persisted -> Done.  Every change of
\* the pipeline state leaves a non-terminal state and goes to its successor or
\* to Failed (no retry, no skip, no branch); the stages completed are exactly
\* those before the current state, each run once; and in every state whose
\* stage raises (the generator on arguments it rejects, the split on data it
\* rejects, the fit, the evaluation, and the directory creation, open and dump
\* of the save stage) the step to Failed is enabled.
C1_LinearOrder ==
    /\ [](\A r \in Runs :
            /\ pc[r] # "Failed" => LinearProgress(r)
            /\ pc[r] = "Failed" => FailedAtOneStage(r)
            /\ pc[r] = "Init" /\ GenError(args[r].n_samples, args[r].n_features) # NoError
                 => RaiseEnabled(r)
            /\ pc[r] = "Generated" /\ SplitError(Val(gen[r]).y) # NoError => RaiseEnabled(r)
            /\ pc[r] \in {"Preprocessed", "Trained"} => RaiseEnabled(r)
            /\ pc[r] = "Evaluated" /\ at[r] \in {"makedirs", "open", "dump"}
                 => RaiseEnabled(r))
    /\ [][\A r \in Runs :
            pc'[r] # pc[r] => /\ pc[r] \notin Terminal
                              /\ \/ pc'[r] = "Failed"
                                 \/ <<pc[r], pc'[r]>> \in
                                      {<<"Init", "Generated">>, <<"Generated", "Preprocessed">>,
                                       <<"Preprocessed", "Trained">>, <<"Trained", "Evaluated">>,
                                       <<"Evaluated", "Persisted">>, <<"Persisted", "Done">>}]_vars

\* C1 witness: a run that went through every state up to Done.
C1_Witness == \E r \in Runs : pc[r] = "Done" /\ \A st \in StageSet : status[r][st] = "ok"

\* C2: an exception raised in any of the five stages ends the process with
\* status 1 and no later stage has run; the process ends with status 0
\* exactly when all five stages completed without raising.
C2_ErrorsSurface ==
    \A r \in Runs :
        /\ exit[r] \in {None, Some(EXIT_SUCCESS), Some(EXIT_FAILURE)}
        /\ \A k \in 1..Len(Stages) :
              StageDone(r, k) = "raised" =>
                 /\ exit[r] = Some(EXIT_FAILURE)
                 /\ \A j \in (k + 1)..Len(Stages) : StageDone(r, j) = "pending"
        /\ exit[r] = Some(EXIT_SUCCESS) <=>
              (pc[r] \in Terminal /\ \A st \in StageSet : status[r][st] = "ok")
        /\ exit[r] = Some(EXIT_FAILURE) <=> \E st \in StageSet : status[r][st] = "raised"
        /\ pc[r] \in Terminal <=> exit[r] # None

\* C2 witness: the fit raised after two stages completed; the process ended
\* with status 1 and neither evaluation nor save ran.
C2_Witness ==
    \E r \in Runs : /\ status[r]["train"] = "raised" /\ exit[r] = Some(EXIT_FAILURE)
                    /\ status[r]["preprocess"] = "ok" /\ status[r]["save"] = "pending"

\* C3 (as claimed): for every positive sample count and every positive
\* feature count the generator completes without error, its dataset has no
\* more informative features than features, and only non-positive counts make
\* it fail.
C3_PositiveCountsSucceed ==
    \A r \in Runs :
        /\ args[r].n_samples > 0 /\ args[r].n_features > 0
             => status[r]["generate"] # "raised"
        /\ status[r]["generate"] = "ok" => N_INFORMATIVE <= Val(gen[r]).n_features
        /\ status[r]["generate"] = "raised"
             => (args[r].n_samples <= 0 \/ args[r].n_features <= 0)

\* The files of run r that are on disk.
FilesOf(r) == {p \in DOMAIN disk : \E i \in DOMAIN disk[p].writers : disk[p].writers[i] = r}

\* C4: with sample count 0 the run fails in the Data Generator, and when it
\* is Failed this run has created no directory and written no artifact file.
C4_NoIOBeforeGeneratorFailure ==
    \A r \in Runs :
        args[r].n_samples = 0 /\ pc[r] # "Init" =>
            /\ pc[r] = "Failed" /\ status[r]["generate"] = "raised"
            /\ ~madeDir[r] /\ opened[r] = <<>> /\ FilesOf(r) = {} /\ disk = <<>>

\* C4 witness: a run with sample count 0 and a valid feature count is Failed.
C4_Witness ==
    \E r \in Runs : /\ args[r].n_samples = 0 /\ args[r].n_features = 20
                    /\ pc[r] = "Failed"

\* C5: when save_model_and_artifacts has returned, it has written exactly
\* three files, in the order model, scaler, metrics; their names carry the
\* model name and one and the same timestamp, the one read once at line 97;
\* and the value returned is the path of the model file.
C5_ThreeFilesOneTimestamp ==
    \A r \in Runs :
        at[r] = "returned" =>
            /\ Len(opened[r]) = 3
            /\ opened[r][1].kind = "" /\ opened[r][1].ext = "pkl"
            /\ opened[r][2].kind = "scaler" /\ opened[r][2].ext = "pkl"
            /\ opened[r][3].kind = "metrics" /\ opened[r][3].ext = "json"
            /\ \A i \in 1..3 : /\ opened[r][i].name = MODEL_NAME
                               /\ opened[r][i].stamp = Val(ts[r])
                               /\ opened[r][i] \in DOMAIN disk
                               /\ disk[opened[r][i]].complete
            /\ ret[r] = Some(opened[r][1])
            /\ pc[r] \in {"Persisted", "Done"}

\* C5 witness: the call returned although the clock moved on to the next
\* second while it was writing.
C5_Witness ==
    \E r \in Runs : at[r] = "returned" /\ FormatTimestamp(clock) # Val(ts[r])

\* C6: the files a run has opened are always a prefix of (model, scaler,
\* metrics) and are exactly the files on disk; a failure of the save stage
\* ends the run with status 1, and leaves on disk every file opened so far,
\* all complete except possibly the last: nothing is rolled back and nothing
\* later is written.
C6_PartialArtifactsRemain ==
    \A r \in Runs :
        /\ ts[r] = None => opened[r] = <<>>
        /\ ts[r] # None => IsPrefix(opened[r], WriteOrder(ArtifactPaths(MODEL_NAME, Val(ts[r]))))
        /\ DOMAIN disk = Range(opened[r])
        /\ status[r]["save"] = "raised" =>
              /\ pc[r] = "Failed" /\ exit[r] = Some(EXIT_FAILURE)
              /\ \A i \in 1..Len(opened[r]) :
                    /\ opened[r][i] \in DOMAIN disk
                    /\ i < Len(opened[r]) => disk[opened[r][i]].complete
              /\ at[r] = "dump" <=>
                    (opened[r] # <<>> /\ ~disk[opened[r][Len(opened[r])]].complete)

\* C6 witness: the dump of the scaler failed; the model file is complete, the
\* scaler file is on disk incomplete, no metrics file exists.
C6_Witness ==
    \E r \in Runs : /\ pc[r] = "Failed" /\ Len(opened[r]) = 2
                    /\ disk[opened[r][1]].complete /\ ~disk[opened[r][2]].complete

\* C8: in preprocess_data the scaler is fitted exactly once, as its first
\* call, on the training partition; every other call is a transform; its
\* statistics are those of the training rows, and the test partition is
\* transformed with them.
C8_FitOnTrainOnly ==
    \A r \in Runs :
        prep[r] # None =>
            LET p     == Val(prep[r])
                calls == p.scaler.calls
                total == SeqSum(p.X_train)
                n     == Len(p.X_train)
            IN
            /\ Cardinality({i \in DOMAIN calls : calls[i].op = "fit"}) = 1
            /\ calls[1].op = "fit" /\ calls[1].data = p.X_train
            /\ \A i \in DOMAIN calls : calls[i].op = "fit" => calls[i].data # p.X_test
            /\ \E i \in DOMAIN calls : calls[i].op = "transform" /\ calls[i].data = p.X_test
            /\ p.scaler.sum = total
            /\ p.scaler.n = n
            /\ \A k \in DOMAIN p.X_test : p.X_test_scaled[k] = n * p.X_test[k] - total
            /\ \A k \in DOMAIN p.X_train : p.X_train_scaled[k] = n * p.X_train[k] - total

\* C8 witness: a two-class dataset was preprocessed.
C8_Witness ==
    \E r \in Runs : /\ prep[r] # None /\ Len(Val(prep[r]).X_test) = 2
                    /\ Range(Val(prep[r]).y_train) = Classes

\* C9: the partition preprocess_data produces is disjoint and exhaustive:
\* every row of X is in exactly one of X_train and X_test, and the label at
\* each position of y_train and y_test is the label of the row at that
\* position.
C9_PartitionDisjointExhaustive ==
    \A r \in Runs :
        prep[r] # None =>
            LET p == Val(prep[r])
                d == Val(gen[r])
            IN
            /\ Range(p.X_train) \cap Range(p.X_test) = {}
            /\ Range(p.X_train) \cup Range(p.X_test) = Range(d.X)
            /\ Len(p.X_train) + Len(p.X_test) = Len(d.X)
            /\ Len(p.y_train) = Len(p.X_train)
            /\ Len(p.y_test) = Len(p.X_test)
            /\ \A k \in DOMAIN p.X_train : p.y_train[k] = d.y[p.X_train[k]]
            /\ \A k \in DOMAIN p.X_test : p.y_test[k] = d.y[p.X_test[k]]

\* C9 witness: a dataset of six rows with unequal classes was split.
C9_Witness ==
    \E r \in Runs : /\ prep[r] # None /\ Len(Val(gen[r]).X) = 6
                    /\ ClassCount(Val(gen[r]).y, 0) = 4 /\ ClassCount(Val(gen[r]).y, 1) = 2

-----------------------------------------------------------------------------
(* Properties of concurrent runs (checked under SpecConc).                 *)

\* C7 (as claimed): any two runs write to distinct file paths, so no file is
\* ever opened for writing by more than one run.
C7_NoSharedPaths ==
    /\ \A r1, r2 \in Runs : r1 # r2 => Range(opened[r1]) \cap Range(opened[r2]) = {}
    /\ \A p \in DOMAIN disk : Len(disk[p].writers) <= 1

-----------------------------------------------------------------------------
(* validate_integration.py.                                                *)
(*                                                                         *)
(* A YAML value is a record [type, items]: null, a scalar that is no       *)
(* container (an integer), or a mapping or list whose keys or elements are *)
(* items.  `x in v` raises TypeError on the first two.                     *)

Null == [type |-> "null", items |-> {}]
Scalar == [type |-> "int", items |-> {}]
MapOf(S) == [type |-> "map", items |-> S]

Truthy(v) == IF v.type = "map" THEN v.items # {} ELSE v.type = "int"
IsContainer(v) == v.type = "map"

ExpectedTriggers == {"issue_comment", "pull_request_review_comment", "issues"}
RequiredPermissions == {"contents", "pull-requests", "issues"}
TopKeys == {"name", "on", "True", "jobs"}

\* The values given to the `on` (or True) key.
TriggerValues == {Null, Scalar, MapOf({}), MapOf({"issue_comment", "issues"}),
                  MapOf(ExpectedTriggers)}
\* The values of workflow['jobs']: null, no claude-response job, or the job.
JobsValues == {Null, MapOf({"build"}), MapOf({"claude-response"})}
\* The keys of the job and the value of each permission.
PermissionValues ==
    {[r \in RequiredPermissions |-> "write"],
     [r \in RequiredPermissions |-> IF r = "issues" THEN "read" ELSE "write"],
     [r \in RequiredPermissions |-> IF r = "contents" THEN "absent" ELSE "write"]}
\* job['steps']: null, or a list of steps; a step is a mapping with a name
\* (or without one: the name ''), or a plain string.
StepsValues ==
    {Null,
     MapOf({"Checkout repository", "Run Claude Code"}),
     MapOf({"Checkout repository", ""}),
     MapOf({"Run Claude Code"}),
     [type |-> "map", items |-> {"Checkout repository", "Run Claude Code", "<str>"}]}

\* The states of .github/workflows/claude.yml: a file that is missing, cannot
\* be read, is not YAML or is empty; a mapping with any top-level keys and any
\* triggers over a well-formed jobs section; and a mapping with well-formed
\* top-level keys and triggers over any jobs section.
AllWrite == [r \in RequiredPermissions |-> "write"]
WorkflowFiles ==
    {[kind |-> k, keys |-> {}, on |-> Null, true |-> Null, jobs |-> Null,
      job_keys |-> {}, permissions |-> AllWrite, steps |-> Null] :
        k \in {"missing", "unreadable", "bad_yaml", "null"}}
    \cup
    [kind : {"mapping"}, keys : SUBSET TopKeys, on : TriggerValues,
     true : {Null, MapOf(ExpectedTriggers)}, jobs : {MapOf({"claude-response"})},
     job_keys : {{"permissions", "steps"}}, permissions : {AllWrite},
     steps : {MapOf({"Checkout repository", "Run Claude Code"})}]
    \cup
    [kind : {"mapping"}, keys : {TopKeys \ {"True"}, TopKeys \ {"on"}},
     on : {MapOf(ExpectedTriggers)}, true : {MapOf(ExpectedTriggers)},
     jobs : JobsValues, job_keys : {{}, {"permissions"}, {"permissions", "steps"}},
     permissions : PermissionValues, steps : StepsValues]

\* workflow.get(key): the value, or None when the key is absent.
Get(f, key) ==
    IF key = "on" THEN (IF "on" \in f.keys THEN f.on ELSE Null)
    ELSE (IF "True" \in f.keys THEN f.true ELSE Null)

\* Lines 19-84 of validate_workflow, the body of its try: "True" or "False"
\* when it returns, the name of the exception when it raises.
WorkflowBody(f) ==
    IF f.kind = "unreadable" THEN "OSError"                       \* line 19
    ELSE IF f.kind = "bad_yaml" THEN "YAMLError"                  \* line 20
    ELSE IF f.kind = "null" THEN "TypeError"                      \* line 23
    ELSE IF "name" \notin f.keys THEN "False"
    ELSE IF "on" \notin f.keys /\ "True" \notin f.keys THEN "False"
    ELSE IF "jobs" \notin f.keys THEN "False"
    ELSE LET triggers == IF Truthy(Get(f, "on")) THEN Get(f, "on") ELSE Get(f, "True") IN
    IF ~Truthy(triggers) THEN "False"                             \* line 37
    ELSE IF ~IsContainer(triggers) THEN "TypeError"               \* line 43
    ELSE IF ~(ExpectedTriggers \subseteq triggers.items) THEN "False"
    ELSE IF ~IsContainer(f.jobs) THEN "TypeError"                 \* line 49
    ELSE IF "claude-response" \notin f.jobs.items THEN "False"
    ELSE IF "permissions" \notin f.job_keys THEN "False"          \* line 56
    ELSE IF \E perm \in RequiredPermissions : f.permissions[perm] # "write" THEN "False"
    ELSE IF "steps" \notin f.job_keys THEN "False"                \* line 68
    ELSE IF ~IsContainer(f.steps) THEN "TypeError"                \* line 73
    ELSE IF "<str>" \in f.steps.items THEN "AttributeError"       \* line 73
    ELSE IF "Checkout repository" \notin f.steps.items THEN "False"
    ELSE IF "Run Claude Code" \notin f.steps.items THEN "False"
    ELSE "True"

\* A validate_workflow whose only handler is except yaml.YAMLError.
WorkflowExceptYamlOnly(outcome) ==
    IF outcome = "YAMLError" THEN "False" ELSE outcome

\* Lines 86-91: except yaml.YAMLError and except Exception both return False.
WorkflowExcept(outcome) ==
    IF outcome \in {"True", "False"} THEN outcome ELSE "False"

\* validate_workflow(): "True", "False", or the exception that leaves it.
validate_workflow(f) ==
    IF f.kind = "missing" THEN "False"                            \* line 14
    ELSE WorkflowExcept(WorkflowBody(f))

\* The states of a documentation file.
DocFileStates == {"missing", "unreadable", "empty", "plain", "mentions_claude",
                  "has_section", "complete"}
Content(st) == [nonblank |-> st \notin {"empty"},
                at_claude |-> st \in {"mentions_claude", "complete"},
                section   |-> st \in {"has_section", "complete"}]

FilesToCheck == <<"README.md", ".claude-config.md">>

\* Lines 103-133, one turn of the loop: does the file keep all_valid as it is
\* ("True"), clear it ("False"), or does an exception leave the loop?
CheckDocBody(filename, st) ==
    IF st = "missing" THEN "False"                                \* line 103
    ELSE IF st = "unreadable" THEN "OSError"                      \* line 109
    ELSE IF ~Content(st).nonblank THEN "False"                    \* line 112
    ELSE IF filename = "README.md" /\ ~Content(st).at_claude THEN "False"
    ELSE IF filename = "README.md" /\ ~Content(st).section THEN "False"
    ELSE "True"

\* Lines 131-133: except Exception clears all_valid.
DocExcept(outcome) ==
    IF outcome \in {"True", "False"} THEN outcome ELSE "False"

CheckDoc(filename, st) == DocExcept(CheckDocBody(filename, st))

\* validate_documentation(): all_valid after the loop, or the exception that
\* leaves the function.  files[i] is the state of FilesToCheck[i].
validate_documentation(files) ==
    LET results == [i \in DOMAIN FilesToCheck |-> CheckDoc(FilesToCheck[i], files[i])]
    IN IF \E i \in DOMAIN results : results[i] \notin {"True", "False"}
          THEN results[CHOOSE i \in DOMAIN results : results[i] \notin {"True", "False"}]
       ELSE IF \A i \in DOMAIN results : results[i] = "True" THEN "True" ELSE "False"

\* Line 142 of main().
ValWorkflow ==
    /\ vpc = "start"
    /\ LET res == validate_workflow(wfFile) IN
       IF res \in {"True", "False"}
          THEN /\ workflow_valid' = Some(res = "True")
               /\ vpc' = "workflow_done"
               /\ UNCHANGED escaped
          ELSE /\ escaped' = TRUE /\ vpc' = "crashed"
               /\ UNCHANGED workflow_valid
    /\ UNCHANGED <<wfFile, docFiles, docs_valid, vret, pipeVars>>

\* Line 145 of main().
ValDocumentation ==
    /\ vpc = "workflow_done"
    /\ LET res == validate_documentation(docFiles) IN
       IF res \in {"True", "False"}
          THEN /\ docs_valid' = Some(res = "True")
               /\ vpc' = "docs_done"
               /\ UNCHANGED escaped
          ELSE /\ escaped' = TRUE /\ vpc' = "crashed"
               /\ UNCHANGED docs_valid
    /\ UNCHANGED <<wfFile, docFiles, workflow_valid, vret, pipeVars>>

\* Lines 148-153 of main().
MainResult(wv, dv) == IF wv /\ dv THEN 0 ELSE 1

ValReturn ==
    /\ vpc = "docs_done"
    /\ vret' = Some(MainResult(Val(workflow_valid), Val(docs_valid)))
    /\ vpc' = "returned"
    /\ UNCHANGED <<wfFile, docFiles, workflow_valid, docs_valid, escaped, pipeVars>>

PipeIdle ==
    /\ pc = NoData /\ at = NoData /\ status = NoData /\ exit = NoData /\ args = NoData
    /\ gen = NoData /\ prep = NoData /\ model = NoData /\ metrics = NoData
    /\ ts = NoData /\ opened = NoData /\ ret = NoData /\ madeDir = NoData
    /\ clock = 0 /\ dirExists = FALSE /\ disk = <<>>

InitVal ==
    /\ vpc = "start"
    /\ wfFile \in WorkflowFiles
    /\ docFiles \in [DOMAIN FilesToCheck -> DocFileStates]
    /\ workflow_valid = None /\ docs_valid = None /\ vret = None
    /\ escaped = FALSE
    /\ PipeIdle

NextVal == ValWorkflow \/ ValDocumentation \/ ValReturn

SpecVal == InitVal /\ [][NextVal]_vars

\* C10: the validator's main() runs both checks whatever the first one
\* returned, no exception of either check escapes, and it returns 0 exactly
\* when both checks returned True and 1 otherwise.
C10_BothChecksRun ==
    /\ ~escaped /\ vpc # "crashed"
    /\ vpc = "workflow_done" => workflow_valid # None
    /\ vpc \in {"docs_done", "returned"} => workflow_valid # None /\ docs_valid # None
    /\ workflow_valid # None =>
          (Val(workflow_valid) <=> (wfFile.kind = "mapping" /\ WorkflowBody(wfFile) = "True"))
    /\ docs_valid # None =>
          (Val(docs_valid) <=> (docFiles[1] = "complete"
                                /\ docFiles[2] \notin {"missing", "unreadable", "empty"}))
    /\ vpc = "returned" =>
          /\ vret \in {Some(0), Some(1)}
          /\ vret = Some(0) <=> (Val(workflow_valid) /\ Val(docs_valid))
    /\ vpc # "returned" => vret = None
    /\ (vpc # "returned" /\ vpc # "crashed") => ENABLED NextVal

\* C10 witness: main() returned 1 after the workflow check failed on a file
\* that does not parse and the documentation check ran and passed.
C10_Witness ==
    /\ vpc = "returned" /\ vret = Some(1)
    /\ wfFile.kind = "bad_yaml"
    /\ docs_valid = Some(TRUE)

====
